---- MODULE Spec2Model ----
(***************************************************************************)
(* The GenBank Assembly accession bot of demo.ipynb: the pre-processing of *)
(* prokaryotes.txt into the dict d, the bulk index tax_qid_map, the two    *)
(* definitions of run_one that write (V1: search_only resolution, V2: fast *)
(* run mode) and the run loop over d.items().                              *)
(*                                                                         *)
(* The remote store (Wikidata) is the environment: which items carry which *)
(* NCBI Taxonomy IDs and which GenBank Assembly accession statements is    *)
(* drawn in Init; whether a remote call fails is drawn in each step.       *)
(***************************************************************************)
EXTENDS Integers, Sequences, FiniteSets, TLC

\* ------------------------------------------------------------- bounds
MaxRows == 3      \* rows of prokaryotes.txt when the remote store is kept small
MaxBatch == 2     \* rows of prokaryotes.txt when the remote store is drawn freely

TaxIDs == {1, 2}
Accessions == {"GCA_A", "GCA_B"}
Entities == {"Q1", "Q2"}
Complete == "Complete Genome"
Statuses == {Complete, "Contig"}

\* str(taxid): the decimal string of an integer TaxID
Str(taxid) == ToString(taxid)

TaxStrs == {Str(t) : t \in TaxIDs}

\* A row of the file: the three columns the notebook reads.
Rows == [Status : Statuses, TaxID : TaxIDs, Acc : Accessions]
CompleteRows == [Status : {Complete}, TaxID : TaxIDs, Acc : Accessions]

SeqsUpTo(S, n) == UNION {[1..m -> S] : m \in 0..n}

\* A GenBank Assembly accession statement on an item; ref is the age of its
\* "retrieved" reference: "old" for one found on the item, "today" for one
\* create_reference() has just made.
Statements == [val : Accessions, ref : {"old", "today"}]

\* The statements a run may find on an item when it starts.
FoundStatements == {s \in Statements : s.ref = "old"}

VARIABLES
    rows,        \* prokaryotes.txt, as read by pd.read_csv
    d,           \* the dict d: TaxID -> accession
    order,       \* the iteration order of d.items()
    P685Of,      \* remote: item -> its NCBI Taxonomy ID values
    P4333Of,     \* remote: item -> its GenBank Assembly accession statements
    tax_qid_map, \* the bulk index: taxid string -> item
    run_one,     \* which definition of run_one is bound: "V1" or "V2"
    frc_built,   \* whether the fast run container has loaded P4333
    frc,         \* the fast run container: item -> accession values it holds
    pc,          \* "load", "index", "loop", "done", "aborted"
    run,         \* 1: first pass over d; 2: the loop run again
    idx,         \* position of the loop in order
    log,         \* the log file, one entry per WDItemEngine.log call
    called,      \* the (taxid, genbank_id) pairs run_one was called with
    engines,     \* WDItemEngine objects constructed so far
    writes,      \* write calls sent to the remote store so far
    reused,      \* run 2 only: whether it runs in the process of run 1
    afterRun1    \* run 2 only: P4333Of as the first run left it

vars == <<rows, d, order, P685Of, P4333Of, tax_qid_map, run_one, frc_built, frc,
          pc, run, idx, log, called, engines, writes, reused, afterRun1>>

\* ------------------------------------------------------------- loader

\* df.query("Status == 'Complete Genome'")
QueryComplete(rs) == SelectSeq(rs, LAMBDA r : r.Status = Complete)

\* df.groupby("TaxID").agg({'Assembly Accession': lambda x: list(x)}):
\* per TaxID the list of the accessions of its rows, in row order.
GroupByTaxID(df) ==
    [k \in {df[i].TaxID : i \in 1..Len(df)} |->
        LET keep(r) == r.TaxID = k
            sel == SelectSeq(df, keep)
        IN  [i \in 1..Len(sel) |-> sel[i].Acc]]

\* The loader with the length test replaced by "at least one": the first
\* accession of every TaxID is kept.
LoadD_KeepFirst(rs) ==
    LET g == GroupByTaxID(QueryComplete(rs))
    IN  [k \in {k \in DOMAIN g : Len(g[k]) >= 1} |-> g[k][1]]

\* The loader deciding on the set of distinct accessions of a TaxID.
LoadD_Distinct(rs) ==
    LET g == GroupByTaxID(QueryComplete(rs))
        vals(k) == {g[k][i] : i \in 1..Len(g[k])}
    IN  [k \in {k \in DOMAIN g : Cardinality(vals(k)) = 1} |-> g[k][1]]

\* d = {k: v[0] for k, v in d.items() if len(v) == 1}
LoadD(rs) ==
    LET g == GroupByTaxID(QueryComplete(rs))
    IN  [k \in {k \in DOMAIN g : Len(g[k]) = 1} |-> g[k][1]]

\* The orders in which a dict with these keys may be iterated.
Orders(keys) ==
    {s \in [1..Cardinality(keys) -> keys] : \A i, j \in DOMAIN s : i # j => s[i] # s[j]}

\* ------------------------------------------------------------- remote

\* The items carrying the NCBI Taxonomy ID s.
SearchItems(s) == {q \in Entities : s \in P685Of[q]}

\* wdi_helpers.id_mapper(P685, return_as_set=True): taxid string -> set of items
id_mapper == [s \in {s \in TaxStrs : SearchItems(s) # {}} |-> SearchItems(s)]

\* The index keeping one item of every taxid, however many items carry it.
FilterOne_Any(m) ==
    [k \in DOMAIN m |-> CHOOSE q \in m[k] : TRUE]

\* {k: list(v)[0] for k, v in tax_qid_map.items() if len(v) == 1}
FilterOne(m) ==
    [k \in {k \in DOMAIN m : Cardinality(m[k]) = 1} |-> CHOOSE q \in m[k] : TRUE]

\* The search that returns the first item found, however many there are.
SearchOutcome_First(found) ==
    IF Cardinality(found) >= 1 THEN "one" ELSE "none"

\* WDItemEngine(data=[ncbi_statement], search_only=True): more than one item
\* raises ManualInterventionReqException, one sets wd_item_id, none leaves
\* it empty.
SearchOutcome(found) ==
    IF Cardinality(found) > 1 THEN "manual"
    ELSE IF Cardinality(found) = 1 THEN "one" ELSE "none"

\* The fast run container that loads nothing.
FastRunLoad_Empty == [q \in Entities |-> {}]

\* Every record is written, whatever the container holds.
WriteRequired_Always(c, qid, genbank_id) == TRUE

\* The values the fast run container loads for the base filter {P4333: ''}:
\* the items that have the property, with their values (no references).
FastRunLoad == [q \in Entities |-> {s.val : s \in P4333Of[q]}]

\* fast run, V2: a write is required unless the value is already on the item.
WriteRequired(c, qid, genbank_id) == genbank_id \notin c[qid]

\* The fast run container after a write of this run: it is not refreshed.
FrcAfterWrite(c, qid, genbank_id) == c

\* if taxid not in tax_qid_map
NotInIndex(key) == key \notin DOMAIN tax_qid_map

\* create_reference(genbank_id) and the statement built from it
NewStatement(genbank_id) == [val |-> genbank_id, ref |-> "today"]

\* A successful write of data=[genbank_statement] to item qid.
Written(qid, genbank_id) ==
    [P4333Of EXCEPT ![qid] = {NewStatement(genbank_id)}]

\* ------------------------------------------------------------- log

\* wdi_helpers.format_msg(record_id, record_prop, qid, msg) under a level;
\* run and taxid tell the entries of the model apart.
Entry(level, taxid, genbank_id, qid, msg) ==
    [level |-> level, record_id |-> genbank_id, prop |-> "P4333", qid |-> qid,
     msg |-> msg, taxid |-> taxid, run |-> run]

\* ------------------------------------------------------------- Init

\* Remote stores of the runs that draw the file freely.
SmallRemotes ==
    {[Q1 |-> {"1"}, Q2 |-> {}], [Q1 |-> {"1"}, Q2 |-> {"1", "2"}]}

Init ==
    /\ \/ /\ rows \in SeqsUpTo(Rows, MaxRows)
          /\ P685Of \in SmallRemotes
          /\ P4333Of = [q \in Entities |-> {}]
       \/ /\ rows \in SeqsUpTo(CompleteRows, MaxBatch)
          /\ P685Of \in [Entities -> SUBSET TaxStrs]
          /\ P4333Of \in [Entities -> {{}} \cup {{s} : s \in FoundStatements}]
    /\ run_one \in {"V1", "V2"}
    /\ d = <<>>
    /\ order = <<>>
    /\ tax_qid_map = <<>>
    /\ frc_built = FALSE
    /\ frc = [q \in Entities |-> {}]
    /\ pc = "load"
    /\ run = 1
    /\ idx = 1
    /\ log = <<>>
    /\ called = {}
    /\ engines = 0
    /\ writes = 0
    /\ reused = FALSE
    /\ afterRun1 = P4333Of

\* ------------------------------------------------------------- actions

\* load and pre-process data
Load ==
    /\ pc = "load"
    /\ d' = LoadD(rows)
    /\ order' \in Orders(DOMAIN d')
    /\ pc' = "index"
    /\ UNCHANGED <<rows, P685Of, P4333Of, tax_qid_map, run_one, frc_built, frc,
                   run, idx, log, called, engines, writes, reused, afterRun1>>

\* tax_qid_map = id_mapper(...), filtered
BuildIndex ==
    /\ pc = "index"
    /\ tax_qid_map' = FilterOne(id_mapper)
    /\ pc' = IF Len(order) = 0 THEN "done" ELSE "loop"
    /\ UNCHANGED <<rows, d, order, P685Of, P4333Of, run_one, frc_built, frc,
                   run, idx, log, called, engines, writes, reused, afterRun1>>

\* The loop goes on to the next item of d.items(), or ends.
NextRecord ==
    /\ idx' = idx + 1
    /\ pc' = IF idx >= Len(order) THEN "done" ELSE "loop"

\* An exception leaves run_one and the for loop.
Raise ==
    /\ pc' = "aborted"
    /\ UNCHANGED idx

\* Without the return, qid = tax_qid_map[taxid] raises KeyError.
NotFoundExit_KeyError ==
    /\ Raise
    /\ UNCHANGED <<P4333Of, frc_built, frc, engines, writes>>

\* return None: nothing else of run_one runs for this record.
NotFoundExit ==
    /\ NextRecord
    /\ UNCHANGED <<P4333Of, frc_built, frc, engines, writes>>

\* run_one, first definition: the item is searched by its NCBI Taxonomy ID.
RunOneV1 ==
    /\ pc = "loop"
    /\ run_one = "V1"
    /\ LET taxid == order[idx]
           genbank_id == d[taxid]
           found == SearchItems(Str(taxid))
           qid == CHOOSE q \in found : TRUE
       IN  /\ called' = called \cup {<<taxid, genbank_id>>}
           /\ \/ \* ManualInterventionReqException: caught, logged
                 /\ SearchOutcome(found) = "manual"
                 /\ log' = Append(log, Entry("ERROR", taxid, genbank_id, "",
                                             "ManualInterventionReqException"))
                 /\ engines' = engines
                 /\ NextRecord
                 /\ UNCHANGED <<P4333Of, writes>>
              \/ \* any other exception of the search is not caught
                 /\ Raise
                 /\ UNCHANGED <<log, engines, P4333Of, writes>>
              \/ \* no item: logged, skipped
                 /\ SearchOutcome(found) = "none"
                 /\ log' = Append(log, Entry("WARNING", taxid, genbank_id, "",
                                             "No organism found"))
                 /\ engines' = engines + 1
                 /\ NextRecord
                 /\ UNCHANGED <<P4333Of, writes>>
              \/ \* the second WDItemEngine(...) raises: not caught
                 /\ SearchOutcome(found) = "one"
                 /\ Raise
                 /\ engines' = engines + 1
                 /\ UNCHANGED <<log, P4333Of, writes>>
              \/ \* try_write succeeds
                 /\ SearchOutcome(found) = "one"
                 /\ P4333Of' = Written(qid, genbank_id)
                 /\ writes' = writes + 1
                 /\ engines' = engines + 2
                 /\ log' = Append(log, Entry("INFO", taxid, genbank_id, qid, "UPDATE"))
                 /\ NextRecord
              \/ \* try_write captures the error of the write and logs it
                 /\ SearchOutcome(found) = "one"
                 /\ writes' = writes + 1
                 /\ engines' = engines + 2
                 /\ log' = Append(log, Entry("ERROR", taxid, genbank_id, qid, "WDApiError"))
                 /\ NextRecord
                 /\ UNCHANGED P4333Of
    /\ UNCHANGED <<rows, d, order, P685Of, tax_qid_map, run_one, frc_built, frc, run,
                   reused, afterRun1>>

\* run_one, second definition (fast run mode): the item is looked up in
\* tax_qid_map; the fast run container decides whether a write is required.
RunOneV2 ==
    /\ pc = "loop"
    /\ run_one = "V2"
    /\ LET taxid == order[idx]
           genbank_id == d[taxid]
           key == Str(taxid)
           qid == tax_qid_map[key]
           c == IF frc_built THEN frc ELSE FastRunLoad
       IN  /\ called' = called \cup {<<taxid, genbank_id>>}
           /\ \/ \* taxid not in tax_qid_map: logged, return None
                 /\ NotInIndex(key)
                 /\ log' = Append(log, Entry("WARNING", taxid, genbank_id, "",
                                             "not found or skipped"))
                 /\ NotFoundExit
              \/ \* WDItemEngine(...) raises while the container loads P4333
                 /\ ~NotInIndex(key)
                 /\ ~frc_built
                 /\ Raise
                 /\ UNCHANGED <<log, P4333Of, frc_built, frc, engines, writes>>
              \/ \* WDItemEngine(...) raises while it loads the item to write
                 /\ ~NotInIndex(key)
                 /\ WriteRequired(c, qid, genbank_id)
                 /\ Raise
                 /\ frc_built' = TRUE
                 /\ frc' = c
                 /\ UNCHANGED <<log, P4333Of, engines, writes>>
              \/ \* no write required: try_write logs SKIP
                 /\ ~NotInIndex(key)
                 /\ ~WriteRequired(c, qid, genbank_id)
                 /\ frc_built' = TRUE
                 /\ frc' = c
                 /\ engines' = engines + 1
                 /\ log' = Append(log, Entry("INFO", taxid, genbank_id, qid, "SKIP"))
                 /\ NextRecord
                 /\ UNCHANGED <<P4333Of, writes>>
              \/ \* try_write succeeds
                 /\ ~NotInIndex(key)
                 /\ WriteRequired(c, qid, genbank_id)
                 /\ frc_built' = TRUE
                 /\ frc' = FrcAfterWrite(c, qid, genbank_id)
                 /\ engines' = engines + 1
                 /\ P4333Of' = Written(qid, genbank_id)
                 /\ writes' = writes + 1
                 /\ log' = Append(log, Entry("INFO", taxid, genbank_id, qid, "UPDATE"))
                 /\ NextRecord
              \/ \* try_write captures the error of the write and logs it
                 /\ ~NotInIndex(key)
                 /\ WriteRequired(c, qid, genbank_id)
                 /\ frc_built' = TRUE
                 /\ frc' = c
                 /\ engines' = engines + 1
                 /\ writes' = writes + 1
                 /\ log' = Append(log, Entry("ERROR", taxid, genbank_id, qid, "WDApiError"))
                 /\ NextRecord
                 /\ UNCHANGED P4333Of
    /\ UNCHANGED <<rows, d, order, P685Of, tax_qid_map, run_one, run, reused, afterRun1>>

\* The loop cell is run a second time: in the same process, where the fast
\* run container of the first run is still there, or in a new one.
Rerun ==
    /\ pc = "done"
    /\ run = 1
    /\ run' = 2
    /\ idx' = 1
    /\ pc' = IF Len(order) = 0 THEN "done" ELSE "loop"
    /\ afterRun1' = P4333Of
    /\ \/ /\ reused' = TRUE
          /\ UNCHANGED <<frc_built, frc>>
       \/ /\ reused' = FALSE
          /\ frc_built' = FALSE
          /\ frc' = [q \in Entities |-> {}]
    /\ UNCHANGED <<rows, d, order, P685Of, P4333Of, tax_qid_map, run_one, log, called,
                   engines, writes>>

Next ==
    \/ Load
    \/ BuildIndex
    \/ RunOneV1
    \/ RunOneV2
    \/ Rerun

Spec == Init /\ [][Next]_vars

\* ------------------------------------------------------------- claims

\* The accessions of the Complete Genome rows of TaxID k, and those rows.
AdmittedRows(k) == {i \in DOMAIN rows : rows[i].Status = Complete /\ rows[i].TaxID = k}
AdmittedVals(k) == {rows[i].Acc : i \in AdmittedRows(k)}

LogEntries == {log[i] : i \in DOMAIN log}

\* C1: a TaxID whose Complete Genome rows carry more than one accession is
\* never a key of d, and run_one is never called with it.
C1_AmbiguousKeyExcluded ==
    \A k \in TaxIDs :
        Cardinality(AdmittedVals(k)) > 1 =>
            /\ k \notin DOMAIN d
            /\ \A c \in called : c[1] # k

\* A finished run whose file had a TaxID with two accessions and another
\* TaxID that run_one was called with.
C1_Witness ==
    /\ pc = "done"
    /\ called # {}
    /\ \E k \in TaxIDs : Cardinality(AdmittedVals(k)) > 1

\* C2 as stated: a TaxID is a key of d, mapped to its accession, whenever
\* the set of distinct accessions of its Complete Genome rows has exactly
\* one element.
C2_DistinctValueRetention ==
    pc # "load" =>
        \A k \in TaxIDs :
            Cardinality(AdmittedVals(k)) = 1 =>
                k \in DOMAIN d /\ d[k] \in AdmittedVals(k)

\* C2, amended: a TaxID is a key of d exactly when it has one Complete
\* Genome row, and d maps it to the accession of that row; a TaxID with
\* several such rows is dropped even when they all carry the same accession.
C2_SingleRowRetention ==
    pc # "load" =>
        \A k \in TaxIDs :
            /\ k \in DOMAIN d <=> Cardinality(AdmittedRows(k)) = 1
            /\ k \in DOMAIN d => d[k] \in AdmittedVals(k)

\* A loaded file in which one TaxID has two rows with the same accession
\* and is dropped, beside a TaxID that is kept.
C2_Witness ==
    /\ pc # "load"
    /\ DOMAIN d # {}
    /\ \E k \in TaxIDs :
        /\ Cardinality(AdmittedRows(k)) = 2
        /\ Cardinality(AdmittedVals(k)) = 1
        /\ k \notin DOMAIN d

\* The items carrying the taxid of a log entry.
CandidatesOf(e) == SearchItems(Str(e.taxid))

\* C4: on one remote store, a TaxID that run_one V1 resolves and that is a
\* key of tax_qid_map is resolved to the same item by both; a TaxID that
\* tax_qid_map drops because several items carry it is not resolved by V1
\* either, which logs it as an ERROR with no item.
C4_StrategiesAgree ==
    run_one = "V1" /\ pc \in {"loop", "done", "aborted"} =>
        \A e \in LogEntries :
            /\ e.qid # "" /\ Str(e.taxid) \in DOMAIN tax_qid_map =>
                   tax_qid_map[Str(e.taxid)] = e.qid
            /\ Str(e.taxid) \in DOMAIN id_mapper \ DOMAIN tax_qid_map =>
                   e.level = "ERROR" /\ e.qid = ""

\* A finished V1 run that resolved one record and met an ambiguous one.
C4_Witness ==
    /\ run_one = "V1"
    /\ pc = "done"
    /\ \E e \in LogEntries : e.qid # "" /\ Str(e.taxid) \in DOMAIN tax_qid_map
    /\ \E e \in LogEntries : Str(e.taxid) \in DOMAIN id_mapper \ DOMAIN tax_qid_map

\* C5 as stated: under both definitions of run_one, a record whose taxid is
\* carried by several items is logged as an ERROR, never as the WARNING of
\* a taxid that no item carries.
C5_AmbiguousIsError ==
    \A e \in LogEntries :
        Cardinality(CandidatesOf(e)) > 1 => e.level = "ERROR"

\* C5, amended: V1 logs an ambiguous taxid as an ERROR and a taxid that is
\* not found as a WARNING; V2 logs both with the same WARNING, "not found or
\* skipped", and no item.
C5_OutcomesPerStrategy ==
    \A e \in LogEntries :
        /\ run_one = "V1" =>
            /\ Cardinality(CandidatesOf(e)) > 1 =>
                   e.level = "ERROR" /\ e.msg = "ManualInterventionReqException"
            /\ Cardinality(CandidatesOf(e)) = 0 =>
                   e.level = "WARNING" /\ e.msg = "No organism found"
        /\ run_one = "V2" =>
            (Cardinality(CandidatesOf(e)) # 1 =>
                   e.level = "WARNING" /\ e.msg = "not found or skipped" /\ e.qid = "")

\* A V2 run that logged an ambiguous taxid and a taxid that is not found.
C5_Witness ==
    /\ run_one = "V2"
    /\ \E e \in LogEntries : Cardinality(CandidatesOf(e)) > 1
    /\ \E e \in LogEntries : Cardinality(CandidatesOf(e)) = 0

\* The log entries of the run in progress.
RunLog == SelectSeq(log, LAMBDA e : e.run = run)

\* C6: no failure of one record ends the loop, and a loop that has ended
\* has logged one outcome per record of d, in the order of the loop.
C6_FailureIsolation ==
    /\ pc # "aborted"
    /\ pc = "done" =>
        /\ Len(RunLog) = Len(order)
        /\ \A i \in DOMAIN RunLog : RunLog[i].taxid = order[i]

\* C7 as stated: no two records of d are resolved to the same item by
\* tax_qid_map.
C7_IndexInjective ==
    \A k1, k2 \in DOMAIN d :
        (k1 # k2 /\ Str(k1) \in DOMAIN tax_qid_map /\ Str(k2) \in DOMAIN tax_qid_map)
            => tax_qid_map[Str(k1)] # tax_qid_map[Str(k2)]

\* C7, amended: tax_qid_map holds exactly the taxids that one item carries
\* and maps each to that item; two taxids of one item both map to it.
C7_IndexSingleCandidate ==
    pc \in {"loop", "done", "aborted"} =>
        /\ DOMAIN tax_qid_map = {k \in TaxStrs : Cardinality(SearchItems(k)) = 1}
        /\ \A k \in DOMAIN tax_qid_map : SearchItems(k) = {tax_qid_map[k]}

\* A V2 run that wrote two records of d to the same item.
C7_Witness ==
    /\ run_one = "V2"
    /\ run = 1
    /\ \E i, j \in DOMAIN log :
        /\ log[i].taxid # log[j].taxid
        /\ log[i].qid = log[j].qid
        /\ log[i].msg = "UPDATE" /\ log[j].msg = "UPDATE"

\* The record the loop is at, in a V2 run.
AtV2Record == pc = "loop" /\ run_one = "V2"
CurTaxID == order[idx]
CurQid == tax_qid_map[Str(CurTaxID)]

\* C8: in V2, run_one called with a taxid that is not a key of tax_qid_map
\* appends one WARNING entry ("not found or skipped", no item) and returns:
\* no WDItemEngine is constructed, no write is sent, the remote statements
\* and the fast run container are unchanged, and the loop goes on.
C8_NotFoundShortCircuit ==
    [][(AtV2Record /\ Str(CurTaxID) \notin DOMAIN tax_qid_map) =>
          /\ log' = Append(log, Entry("WARNING", CurTaxID, d[CurTaxID], "",
                                      "not found or skipped"))
          /\ engines' = engines
          /\ writes' = writes
          /\ P4333Of' = P4333Of
          /\ frc' = frc /\ frc_built' = frc_built
          /\ pc' # "aborted"
          /\ idx' = idx + 1]_vars

\* A V2 run that wrote one record, so that the fast run container is
\* loaded, and then logged a taxid that is not in tax_qid_map.
C8_Witness ==
    /\ run_one = "V2"
    /\ run = 1
    /\ Len(log) = 2
    /\ log[1].msg = "UPDATE"
    /\ log[2].msg = "not found or skipped"
    /\ engines = 1
    /\ writes = 1

\* C10: in V2, for a record whose taxid is in tax_qid_map and whose
\* accession the loaded fast run container holds for the item, run_one logs
\* SKIP and sends no write; the statements of the item, whatever the age of
\* their references, are unchanged.
C10_ValueOnlySkip ==
    [][(/\ AtV2Record
        /\ Str(CurTaxID) \in DOMAIN tax_qid_map
        /\ frc_built
        /\ d[CurTaxID] \in frc[CurQid]) =>
          /\ log' = Append(log, Entry("INFO", CurTaxID, d[CurTaxID], CurQid, "SKIP"))
          /\ writes' = writes
          /\ P4333Of' = P4333Of
          /\ pc' # "aborted"]_vars

\* A V2 run that skipped a record after the fast run container was loaded,
\* for an item whose statement has an old reference.
C10_Witness ==
    /\ run_one = "V2"
    /\ Len(log) >= 2
    /\ log[1].qid # ""
    /\ log[Len(log)].msg = "SKIP"
    /\ log[Len(log)].run = 1
    /\ \E s \in P4333Of[log[Len(log)].qid] : s.ref = "old"

\* The records written by the first run that the second run has reached.
WrittenThenRerun ==
    {<<i, j>> \in (DOMAIN log) \X (DOMAIN log) :
        /\ log[i].run = 1 /\ log[i].msg = "UPDATE"
        /\ log[j].run = 2 /\ log[j].taxid = log[i].taxid}

\* The other records of d that go to the item of taxid k.
SharesItem(k) ==
    \E k2 \in DOMAIN d :
        /\ k2 # k
        /\ Str(k2) \in DOMAIN tax_qid_map
        /\ tax_qid_map[Str(k2)] = tax_qid_map[Str(k)]

====
